---- MODULE Spec2Model ----
(***************************************************************************)
(* Model of DeltaBakingService (src/main/content/mods/                     *)
(* delta-baking.service.ts): bakeGame, its helpers and                     *)
(* cleanupOldBakedGames, over an explicit model of the directories the     *)
(* service reads and writes.  Every awaited filesystem call of the source  *)
(* is one step, so concurrent calls interleave exactly at the awaits.      *)
(***************************************************************************)
EXTENDS Integers, Sequences, FiniteSets, TLC

\* ------------------------------------------------------------------ bounds

\* The clock (Date.now(), mtimes) runs over 0..MaxTime.
MaxTime == 2

\* maxAge arguments of cleanupOldBakedGames are drawn from 0..MaxAge.
MaxAge == 1

\* Longest mods list drawn for generateCombinationHash in SpecHash.
MaxMods == 2

\* The concurrent callers of bakeGame.
Callers == {"c1", "c2"}

\* ------------------------------------------------------------ strings

\* A string whose characters matter (toLowerCase, includes, endsWith) is a
\* sequence of one-character strings.
LowerChar(ch) ==
    CASE ch = "D" -> "d"
      [] ch = "B" -> "b"
      [] OTHER -> ch

ToLowerCase(s) == [i \in 1..Len(s) |-> LowerChar(s[i])]

Includes(s, sub) ==
    \E i \in 0..(Len(s) - Len(sub)) : SubSeq(s, i + 1, i + Len(sub)) = sub

EndsWith(s, suf) ==
    /\ Len(s) >= Len(suf)
    /\ SubSeq(s, Len(s) - Len(suf) + 1, Len(s)) = suf

\* ------------------------------------------------- mods (ModMetadata)

ModPatch == [name |-> "Patch", shortname |-> "patch", version |-> "v1",
             installPath |-> "/mods/patch"]

ModOther == [name |-> "Other", shortname |-> "other", version |-> "v1",
             installPath |-> "/mods/other"]

\* ModPatch after its directory was moved, a later version of it, and
\* ModPatch under another display name.
ModPatchMoved == [ModPatch EXCEPT !.installPath = "/moved/patch"]

ModPatchV2 == [ModPatch EXCEPT !.version = "v2"]

ModPatchRenamed == [ModPatch EXCEPT !.name = "Patch!"]

Demo == <<"d", "e", "m", "o">>

Pack == <<"p", "a", "c", "k">>

Nope == <<"n", "o", "p", "e">>

\* A base type holding the two characters JSON.stringify escapes.
Quoted == <<"d", "\"", "\\">>

\* --------------------------------------- generateCombinationHash (l.108)

\* JSON.stringify of a string: quotes around it, '"' and '\' escaped.
RECURSIVE JsonEscape(_)
JsonEscape(s) ==
    IF s = <<>> THEN <<>>
    ELSE (IF Head(s) \in {"\"", "\\"} THEN <<"\\", Head(s)>> ELSE <<Head(s)>>)
         \o JsonEscape(Tail(s))

JsonString(s) == <<"\"">> \o JsonEscape(s) \o <<"\"">>

\* A string whose characters are not modelled is one character of the stream.
JsonAtom(a) == JsonString(<<a>>)

\* ModIdentity leaving installPath, or version, out of the hashed object.
ModIdentityNoPath(mod) == <<mod.shortname, mod.version, "">>

ModIdentityNoVersion(mod) == <<mod.shortname, "", mod.installPath>>

\* mods.map((mod) => ({ shortname, version, installPath }))
ModIdentity(mod) == <<mod.shortname, mod.version, mod.installPath>>

JsonMod(id) ==
    <<"{", "\"shortname\"", ":">> \o JsonAtom(id[1])
    \o <<",", "\"version\"", ":">> \o JsonAtom(id[2])
    \o <<",", "\"installPath\"", ":">> \o JsonAtom(id[3])
    \o <<"}">>

RECURSIVE JsonMods(_)
JsonMods(mods) ==
    IF mods = <<>> THEN <<>>
    ELSE JsonMod(ModIdentity(Head(mods)))
         \o (IF Tail(mods) = <<>> THEN <<>> ELSE <<",">>)
         \o JsonMods(Tail(mods))

\* JSON.stringify({ baseGameType, engineVersion, mods: [...] })
Stringify(baseGameType, mods, engineVersion) ==
    <<"{", "\"baseGameType\"", ":">> \o JsonString(baseGameType)
    \o <<",", "\"engineVersion\"", ":">> \o JsonAtom(engineVersion)
    \o <<",", "\"mods\"", ":", "[">> \o JsonMods(mods) \o <<"]", "}">>

\* createHash("sha256")...digest("hex").substring(0, 16): the digest is taken
\* to be injective on its input, so the key is the digested content itself.
Sha256Hex16(content) == content

generateCombinationHash(baseGameType, mods, engineVersion) ==
    Sha256Hex16(Stringify(baseGameType, mods, engineVersion))

\* `baked-${combinationHash}`
BakedGameName(combinationHash) == <<"baked-">> \o combinationHash

\* path.join(this.bakedGamesDir, bakedGameName): an entry of baked-games.
BakedGameDir(combinationHash) == BakedGameName(combinationHash)

\* The lookup testing the directory the build writes into.
BakedGameArchiveIsDir(combinationHash) == BakedGameDir(combinationHash)

\* `${bakedGameDir}.sdd`
BakedGameArchive(combinationHash) == BakedGameDir(combinationHash) \o <<".sdd">>

\* ------------------------------------------------------- directory trees

\* A source tree is the sequence readdir returns, directories nested.
File(name, content) ==
    [name |-> name, kind |-> "file", content |-> content, entries |-> <<>>]

Dir(name, entries) ==
    [name |-> name, kind |-> "dir", content |-> <<>>, entries |-> entries]

\* The content of a file: a text, or the modinfo.lua bakeGame synthesizes.
Text(t) == [kind |-> "text", text |-> t, base |-> <<>>, mods |-> <<>>,
            count |-> 0, short |-> <<>>]

\* The directories under which findBaseGame looks (l.130).
DataGames == <<"data", "games">>

EngineGames(engineVersion) == <<"assets", "engine", engineVersion, "games">>

AssetGames == <<"assets", "games">>

DemoSdd == <<"D", "e", "m", "o", ".", "s", "d", "d">>

PackSdz == <<"p", "a", "c", "k", ".", "s", "d", "z">>

ByarSdd == <<"b", "y", "a", "r", ".", "s", "d", "d">>

DemoSd7 == <<"d", "e", "m", "o", ".", "s", "d", "7">>

\* The games directories on disk: data/games holds the expanded game
\* Demo.sdd, the engine e1 ships pack.sdz, assets/games holds a byar.sdd
\* without modinfo.lua and the packed demo.sd7; no other engine directory
\* exists.
GamesRootExists(root) == root \in {DataGames, EngineGames("e1"), AssetGames}

GamesReaddir(root) ==
    CASE root = DataGames ->
           <<Dir(DemoSdd, <<File("modinfo.lua", Text("base")),
                            File("data.txt", Text("base"))>>)>>
      [] root = EngineGames("e1") -> <<File(PackSdz, Text("zip"))>>
      [] root = AssetGames -> <<Dir(ByarSdd, <<File("data.txt", Text("byar"))>>),
                                File(DemoSd7, Text("zip"))>>
      [] OTHER -> <<>>

\* path.join(searchDir, candidate)
GamePath(root, name) == [root |-> root, name |-> name]

GameEntry(fullPath) ==
    LET es == GamesReaddir(fullPath.root)
    IN  es[CHOOSE i \in 1..Len(es) : es[i].name = fullPath.name]

AllGamePaths ==
    UNION {{GamePath(r, GamesReaddir(r)[i].name) : i \in 1..Len(GamesReaddir(r))} :
              r \in {DataGames, EngineGames("e1"), AssetGames}}

\* The overlay directory at a mod's installPath.
ModDirExists(installPath) ==
    installPath \in {"/mods/patch", "/moved/patch", "/mods/other"}

ModReaddir(installPath) ==
    CASE installPath \in {"/mods/patch", "/moved/patch"} ->
           <<File("data.txt", Text("patch")),
             Dir("sub", <<File("x.txt", Text("patch"))>>)>>
      [] installPath = "/mods/other" ->
           <<File("data.txt", Text("other")),
             File("modinfo.lua", Text("other"))>>
      [] OTHER -> <<>>

\* ------------------------------------------- isValidGameArchive (l.155)

HasEntry(entries, name) == \E i \in 1..Len(entries) : entries[i].name = name

\* statFails: the paths whose fs.stat rejects during this call.
isValidGameArchive(archivePath, statFails) ==
    IF archivePath \in statFails THEN FALSE
    ELSE LET stat == GameEntry(archivePath)
         IN  IF stat.kind = "dir" /\ EndsWith(archivePath.name, <<".", "s", "d", "d">>)
             THEN HasEntry(stat.entries, "modinfo.lua")
             ELSE IF /\ stat.kind = "file"
                     /\ \/ EndsWith(archivePath.name, <<".", "s", "d", "z">>)
                        \/ EndsWith(archivePath.name, <<".", "s", "d", "7">>)
                  THEN TRUE
                  ELSE FALSE

\* ------------------------------------------------- findBaseGame (l.125)

NotFound == [kind |-> "NotFound", path |-> GamePath(<<>>, <<>>)]

IsCandidate(file, gameType) ==
    \/ Includes(ToLowerCase(file), ToLowerCase(gameType))
    \/ Includes(ToLowerCase(file), <<"b", "y", "a", "r">>)
    \/ Includes(ToLowerCase(file), <<"b", "e", "y", "o", "n", "d">>)

\* The search roots with the bundled ones first.
possiblePathsBundledFirst(engineVersion) ==
    <<AssetGames, EngineGames(engineVersion), DataGames>>

possiblePaths(engineVersion) ==
    <<DataGames, EngineGames(engineVersion), AssetGames>>

\* The first valid candidate of one search directory, or NotFound.
RECURSIVE FirstValid(_, _, _, _)
FirstValid(searchDir, files, gameType, statFails) ==
    IF files = <<>> THEN NotFound
    ELSE LET fullPath == GamePath(searchDir, Head(files).name)
         IN  IF /\ IsCandidate(Head(files).name, gameType)
                /\ isValidGameArchive(fullPath, statFails)
             THEN [kind |-> "found", path |-> fullPath]
             ELSE FirstValid(searchDir, Tail(files), gameType, statFails)

RECURSIVE SearchDirs(_, _, _)
SearchDirs(dirs, gameType, statFails) ==
    IF dirs = <<>> THEN NotFound
    ELSE IF ~GamesRootExists(Head(dirs))
         THEN SearchDirs(Tail(dirs), gameType, statFails)
         ELSE LET hit == FirstValid(Head(dirs), GamesReaddir(Head(dirs)),
                                    gameType, statFails)
              IN  IF hit.kind = "found" THEN hit
                  ELSE SearchDirs(Tail(dirs), gameType, statFails)

\* The path findBaseGame returns, or NotFound where it throws
\* 'Base game not found'.
findBaseGame(gameType, engineVersion, statFails) ==
    SearchDirs(possiblePaths(engineVersion), gameType, statFails)

\* The candidates of the search directories, in the order they are met.
RECURSIVE CandidatePaths(_, _)
CandidatePaths(dirs, gameType) ==
    IF dirs = <<>> THEN <<>>
    ELSE (IF ~GamesRootExists(Head(dirs)) THEN <<>>
          ELSE LET files == GamesReaddir(Head(dirs))
               IN  SelectSeq([i \in 1..Len(files) |-> GamePath(Head(dirs), files[i].name)],
                             LAMBDA fullPath : IsCandidate(fullPath.name, gameType)))
         \o CandidatePaths(Tail(dirs), gameType)

\* The paths isValidGameArchive was called with (l.142): the candidates up
\* to the one returned, all of them when none is.
Statted(gameType, engineVersion, statFails) ==
    LET found == findBaseGame(gameType, engineVersion, statFails)
        paths == CandidatePaths(possiblePaths(engineVersion), gameType)
        upTo == IF found.kind = "NotFound" THEN Len(paths)
                ELSE CHOOSE i \in 1..Len(paths) : paths[i] = found.path
    IN  {paths[i] : i \in 1..upTo}

\* ------------------------------------------------------------- state

VARIABLES
    cache,          \* the baked-games directory: entry name -> entry
    cacheDir,       \* the baked-games directory exists
    now,            \* the clock behind Date.now() and the mtimes
    pc,             \* per caller: the await bakeGame is at
    opts,           \* per caller: the DeltaBakingOptions of its call
    hash,           \* per caller: combinationHash
    baseGamePath,   \* per caller: what findBaseGame returned
    statFailed,     \* per caller: the candidates whose fs.stat rejected
    modsLeft,       \* per caller: the mods the for loop has yet to apply
    todo,           \* per caller: the copies left of the running fs.cp or
                    \* overlayDirectory, in the order they are awaited
    thrown,         \* per caller: the error the try block threw
    outcome,        \* per caller: what the promise settled with
    cleanupWarned,  \* per caller: cleanupBakedGame logged its own failure
    wrote,          \* per caller: the call wrote under bakedGameDir
    overlapped,     \* per caller: the calls in flight while this one ran
    prior,          \* per caller: its combination was baked when it began
    intact,         \* the keys baked with no failure or eviction since
    spc,            \* the await cleanupOldBakedGames is at
    sMaxAge,        \* its maxAge argument
    sNow,           \* its `now`
    sEntries,       \* the entries its for loop has yet to visit
    sVerdict,       \* the last entry it examined: its age and the decision
    sWarned         \* it logged 'Failed to cleanup old baked games'

bakeVars == <<pc, opts, hash, baseGamePath, statFailed, modsLeft, todo, thrown, outcome,
              cleanupWarned, wrote, overlapped, prior>>

sweepVars == <<spc, sMaxAge, sNow, sEntries, sVerdict, sWarned>>

vars == <<cache, cacheDir, now, bakeVars, intact, sweepVars>>

\* ----------------------------------------------- the baked-games entries

EmptyFiles == [p \in {} |-> Text("")]

NewDir(t) == [kind |-> "dir", mtime |-> t, files |-> EmptyFiles, dirs |-> {}]

\* fs.access(filePath) succeeds
fileExists(c, name) == name \in DOMAIN c

Parent(path) == SubSeq(path, 1, Len(path) - 1)

Prefixes(path) == {SubSeq(path, 1, i) : i \in 1..Len(path)}

ParentExists(c, dir, path) ==
    /\ fileExists(c, dir)
    /\ Len(path) = 1 \/ Parent(path) \in c[dir].dirs

\* A directory's mtime moves when an entry is created directly in it.
Touched(entry, path, t) ==
    IF Len(path) = 1 /\ path \notin DOMAIN entry.files /\ path \notin entry.dirs
    THEN t ELSE entry.mtime

\* One awaited filesystem call on bakedGameDir `dir` at time t: whether it
\* resolves, and the directory afterwards.
\*   mkroot  fs.cp creating the destination directory (and baked-games)
\*   cpdir   fs.cp creating a subdirectory of it
\*   mkdir   fs.mkdir(destPath, { recursive: true }) (and its parents)
\*   readdir fs.readdir of a source directory
\*   copy    fs.copyFile, or fs.cp copying one file (both overwrite)
\*   write   fs.writeFile
ApplyOp(c, dir, op, t) ==
    CASE op.op = "mkroot" ->
           [ok |-> TRUE,
            cache |-> IF fileExists(c, dir) THEN c ELSE (dir :> NewDir(t)) @@ c]
      [] op.op = "readdir" -> [ok |-> TRUE, cache |-> c]
      [] op.op = "mkdir" ->
           LET e == IF fileExists(c, dir) THEN c[dir] ELSE NewDir(t)
           IN  [ok |-> TRUE,
                cache |-> (dir :> [e EXCEPT !.dirs = @ \cup Prefixes(op.path),
                                            !.mtime = Touched(e, <<op.path[1]>>, t)])
                          @@ c]
      [] op.op = "cpdir" ->
           IF ~ParentExists(c, dir, op.path) THEN [ok |-> FALSE, cache |-> c]
           ELSE [ok |-> TRUE,
                 cache |-> [c EXCEPT ![dir].dirs = @ \cup {op.path},
                                     ![dir].mtime = Touched(c[dir], op.path, t)]]
      [] OTHER ->
           IF ~ParentExists(c, dir, op.path) THEN [ok |-> FALSE, cache |-> c]
           ELSE [ok |-> TRUE,
                 cache |-> [c EXCEPT ![dir].files = (op.path :> op.content) @@ @,
                                     ![dir].mtime = Touched(c[dir], op.path, t)]]

Op(kind, path, content) == [op |-> kind, path |-> path, content |-> content]

\* A removal that resolves and leaves the entry in place.
RmNothing(c, name) == c

\* A removal that takes every entry of baked-games with it.
RmEverything(c, name) == [n \in {} |-> c[name]]

\* fs.rm(name, { recursive: true, force: true }) resolving.
RmRecursive(c, name) == [n \in DOMAIN c \ {name} |-> c[n]]

\* ----------------------------------------------- extractArchive (l.178)

\* The calls of fs.cp(archivePath, destDir, { recursive: true }), in order.
RECURSIVE CpEntries(_, _)
CpEntries(entries, prefix) ==
    IF entries = <<>> THEN <<>>
    ELSE LET e == Head(entries)
             path == prefix \o <<e.name>>
         IN  (IF e.kind = "dir"
              THEN <<Op("cpdir", path, Text(""))>> \o CpEntries(e.entries, path)
              ELSE <<Op("copy", path, e.content)>>)
             \o CpEntries(Tail(entries), prefix)

CpOps(archivePath) ==
    <<Op("mkroot", <<>>, Text(""))>> \o CpEntries(GameEntry(archivePath).entries, <<>>)

\* ---------------------------------------------- overlayDirectory (l.207)

\* The calls overlayDirectory awaits after its own readdir, in order.
RECURSIVE OverlayEntries(_, _)
OverlayEntries(entries, prefix) ==
    IF entries = <<>> THEN <<>>
    ELSE LET e == Head(entries)
             destPath == prefix \o <<e.name>>
         IN  (IF e.kind = "dir"
              THEN <<Op("mkdir", destPath, Text("")), Op("readdir", destPath, Text(""))>>
                   \o OverlayEntries(e.entries, destPath)
              ELSE <<Op("copy", destPath, e.content)>>)
             \o OverlayEntries(Tail(entries), prefix)

overlayDirectory(srcDir) == OverlayEntries(ModReaddir(srcDir), <<>>)

\* --------------------------------------- createBakedGameModInfo (l.230)

RECURSIVE ModNames(_)
ModNames(mods) ==
    IF mods = <<>> THEN <<>> ELSE <<Head(mods).name>> \o ModNames(Tail(mods))

\* The modinfo.lua written: name, description and shortname are the parts
\* that vary; shortname is the hash of the combination with engineVersion "".
modInfoContent(baseGameType, mods) ==
    [kind |-> "modinfo", text |-> "baked-1.0.0", base |-> baseGameType,
     mods |-> ModNames(mods), count |-> Len(mods),
     short |-> BakedGameName(generateCombinationHash(baseGameType, mods, ""))]

\* A manifest written beside the root modinfo.lua.
modInfoPathBeside == <<"baked.lua">>

\* path.join(bakedGameDir, "modinfo.lua")
modInfoPath == <<"modinfo.lua">>

\* ------------------------------------------------------ bakeGame (l.50)

\* The DeltaBakingOptions the callers pass.
Request(baseGameType, mods, engineVersion) ==
    [baseGameType |-> baseGameType, mods |-> mods, engineVersion |-> engineVersion]

RequestSeq ==
    <<Request(Demo, <<ModPatch, ModOther>>, "e1"),
      Request(Demo, <<ModOther, ModPatch>>, "e1"),
      Request(Pack, <<ModPatch>>, "e1"),
      Request(Nope, <<>>, "e2")>>

Requests == {RequestSeq[i] : i \in 1..Len(RequestSeq)}

KeyOf(options) ==
    generateCombinationHash(options.baseGameType, options.mods, options.engineVersion)

NoRequest == Request(<<>>, <<>>, "")

Err(kind, at) == [kind |-> kind, at |-> at]

NoError == Err("none", "")

\* What the promise of bakeGame settled with.
Pending == [state |-> "pending", gameType |-> <<>>, archivePath |-> <<>>,
            hash |-> <<>>, error |-> NoError]

\* A result whose archivePath is the directory of the build.
BakedGameResultOfDir(combinationHash) ==
    [state |-> "resolved", gameType |-> BakedGameName(combinationHash),
     archivePath |-> BakedGameDir(combinationHash),
     hash |-> combinationHash, error |-> NoError]

\* return { gameType: bakedGameName, archivePath: bakedGameArchive, hash }
BakedGameResult(combinationHash) ==
    [state |-> "resolved", gameType |-> BakedGameName(combinationHash),
     archivePath |-> BakedGameArchive(combinationHash),
     hash |-> combinationHash, error |-> NoError]

Rejected(error) == [Pending EXCEPT !.state = "rejected", !.error = error]

InFlight(c) == pc[c] \notin {"idle", "done", "failed"}

\* l.51-59: the call starts with `options` and computes its names.
BakeGameWith(c, options) ==
    LET combinationHash == generateCombinationHash(options.baseGameType,
                               options.mods, options.engineVersion)
    IN  /\ pc[c] = "idle"
        /\ opts' = [opts EXCEPT ![c] = options]
        /\ hash' = [hash EXCEPT ![c] = combinationHash]
        /\ modsLeft' = [modsLeft EXCEPT ![c] = options.mods]
        /\ prior' = [prior EXCEPT ![c] = combinationHash \in intact]
        /\ overlapped' = [d \in Callers |->
               IF d = c THEN {e \in Callers \ {c} : InFlight(e)}
               ELSE IF InFlight(d) THEN overlapped[d] \cup {c}
               ELSE overlapped[d]]
        /\ pc' = [pc EXCEPT ![c] = "check"]
        /\ UNCHANGED <<cache, cacheDir, now, baseGamePath, statFailed, todo, thrown,
                       outcome,
                       cleanupWarned, wrote, intact, sweepVars>>

BakeGame(c) == \E options \in Requests : BakeGameWith(c, options)

\* l.62-69: if (await this.fileExists(bakedGameArchive)) return {...}
CheckCache(c) ==
    /\ pc[c] = "check"
    /\ IF fileExists(cache, BakedGameArchive(hash[c]))
       THEN /\ pc' = [pc EXCEPT ![c] = "done"]
            /\ outcome' = [outcome EXCEPT ![c] = BakedGameResult(hash[c])]
            /\ intact' = intact \cup {hash[c]}
       ELSE /\ pc' = [pc EXCEPT ![c] = "find"]
            /\ UNCHANGED <<outcome, intact>>
    /\ UNCHANGED <<cache, cacheDir, now, opts, hash, baseGamePath, statFailed,
                   modsLeft, todo, thrown,
                   cleanupWarned, wrote, overlapped, prior, sweepVars>>

\* An error that is recorded while the call stays at the await that threw.
ThrowInPlace(c, error) ==
    /\ pc' = pc
    /\ thrown' = [thrown EXCEPT ![c] = error]
    /\ intact' = intact \ {hash[c]}

\* The catch block is entered with `error` (l.97): the try block is left.
Throw(c, error) ==
    /\ pc' = [pc EXCEPT ![c] = "cleanup"]
    /\ thrown' = [thrown EXCEPT ![c] = error]
    /\ intact' = intact \ {hash[c]}

\* l.75: const baseGamePath = await this.findBaseGame(...)
FindBaseGame(c) ==
    /\ pc[c] = "find"
    /\ \E statFails \in SUBSET AllGamePaths, readdirOk \in BOOLEAN :
         LET found == findBaseGame(opts[c].baseGameType, opts[c].engineVersion,
                                   statFails)
             failed == statFails \cap Statted(opts[c].baseGameType,
                                              opts[c].engineVersion, statFails)
         IN  IF ~readdirOk
             THEN /\ Throw(c, Err("IOFailure", "findBaseGame"))
                  /\ UNCHANGED <<baseGamePath, statFailed>>
             ELSE IF found.kind = "NotFound"
             THEN /\ Throw(c, Err("NotFound", "findBaseGame"))
                  /\ statFailed' = [statFailed EXCEPT ![c] = failed]
                  /\ UNCHANGED baseGamePath
             ELSE /\ baseGamePath' = [baseGamePath EXCEPT ![c] = found.path]
                  /\ statFailed' = [statFailed EXCEPT ![c] = failed]
                  /\ pc' = [pc EXCEPT ![c] = "extract"]
                  /\ UNCHANGED <<thrown, intact>>
    /\ UNCHANGED <<cache, cacheDir, now, opts, hash, modsLeft, todo, outcome,
                   cleanupWarned, wrote, overlapped, prior, sweepVars>>

\* l.179-189: fs.stat(archivePath), then fs.cp or the 'Zip extraction not
\* yet implemented' error.
ExtractArchive(c) ==
    /\ pc[c] = "extract"
    /\ \E statOk \in BOOLEAN :
         IF ~statOk
         THEN Throw(c, Err("IOFailure", "extractArchive")) /\ UNCHANGED todo
         ELSE IF GameEntry(baseGamePath[c]).kind # "dir"
         THEN Throw(c, Err("Unsupported", "extractArchive")) /\ UNCHANGED todo
         ELSE /\ todo' = [todo EXCEPT ![c] = CpOps(baseGamePath[c])]
              /\ pc' = [pc EXCEPT ![c] = "copy"]
              /\ UNCHANGED <<thrown, intact>>
    /\ UNCHANGED <<cache, cacheDir, now, opts, hash, baseGamePath, statFailed,
                   modsLeft, outcome,
                   cleanupWarned, wrote, overlapped, prior, sweepVars>>

\* One awaited call of the running fs.cp (pc "copy") or overlayDirectory
\* (pc "overlay"); after the last one the for loop over mods goes on.
CopyStep(c) ==
    /\ pc[c] \in {"copy", "overlay"}
    /\ todo[c] # <<>>
    /\ \E ioOk \in BOOLEAN :
         LET done == ApplyOp(cache, BakedGameDir(hash[c]), Head(todo[c]), now)
         IN  IF ioOk /\ done.ok
             THEN /\ cache' = done.cache
                  /\ cacheDir' = (cacheDir \/ Head(todo[c]).op \in {"mkroot", "mkdir"})
                  /\ todo' = [todo EXCEPT ![c] = Tail(@)]
                  /\ wrote' = [wrote EXCEPT ![c] = @ \/ Head(todo[c]).op # "readdir"]
                  /\ pc' = [pc EXCEPT ![c] =
                                IF Tail(todo[c]) = <<>> THEN "mods" ELSE @]
                  /\ UNCHANGED <<thrown, intact>>
             ELSE /\ Throw(c, Err("IOFailure", pc[c]))
                  /\ UNCHANGED <<cache, cacheDir, todo, wrote>>
    /\ UNCHANGED <<now, opts, hash, baseGamePath, statFailed, modsLeft, outcome,
                   cleanupWarned, overlapped, prior, sweepVars>>

\* l.79-82 and l.196-208: for (const mod of mods) applyModDelta(mod, ...),
\* up to the readdir of the mod's installPath.
ApplyModDelta(c) ==
    /\ pc[c] = "mods"
    /\ modsLeft[c] # <<>>
    /\ \E readdirOk \in BOOLEAN :
         LET mod == Head(modsLeft[c])
             ops == overlayDirectory(mod.installPath)
         IN  IF readdirOk /\ ModDirExists(mod.installPath)
             THEN /\ modsLeft' = [modsLeft EXCEPT ![c] = Tail(@)]
                  /\ todo' = [todo EXCEPT ![c] = ops]
                  /\ pc' = [pc EXCEPT ![c] = IF ops = <<>> THEN "mods" ELSE "overlay"]
                  /\ UNCHANGED <<thrown, intact>>
             ELSE /\ Throw(c, Err("IOFailure", "applyModDelta"))
                  /\ UNCHANGED <<modsLeft, todo>>
    /\ UNCHANGED <<cache, cacheDir, now, opts, hash, baseGamePath, statFailed,
                   outcome,
                   cleanupWarned, wrote, overlapped, prior, sweepVars>>

\* l.85-96: createBakedGameModInfo writes modinfo.lua, then bakeGame returns.
CreateBakedGameModInfo(c) ==
    /\ pc[c] = "mods"
    /\ modsLeft[c] = <<>>
    /\ \E ioOk \in BOOLEAN :
         LET write == Op("write", modInfoPath,
                         modInfoContent(opts[c].baseGameType, opts[c].mods))
             done == ApplyOp(cache, BakedGameDir(hash[c]), write, now)
         IN  IF ioOk /\ done.ok
             THEN /\ cache' = done.cache
                  /\ wrote' = [wrote EXCEPT ![c] = TRUE]
                  /\ pc' = [pc EXCEPT ![c] = "done"]
                  /\ outcome' = [outcome EXCEPT ![c] = BakedGameResult(hash[c])]
                  /\ intact' = intact \cup {hash[c]}
                  /\ UNCHANGED thrown
             ELSE /\ Throw(c, Err("IOFailure", "createBakedGameModInfo"))
                  /\ UNCHANGED <<cache, wrote, outcome>>
    /\ UNCHANGED <<cacheDir, now, opts, hash, baseGamePath, statFailed, modsLeft,
                   todo, cleanupWarned, overlapped, prior, sweepVars>>

\* ---------------------------------------------- cleanupBakedGame (l.256)

\* l.258: if (await this.fileExists(bakedGameDir)); when it does not exist
\* cleanup returns and bakeGame rethrows (l.101).
CleanupBakedGame(c) ==
    /\ pc[c] = "cleanup"
    /\ IF fileExists(cache, BakedGameDir(hash[c]))
       THEN /\ pc' = [pc EXCEPT ![c] = "rm"]
            /\ UNCHANGED outcome
       ELSE /\ pc' = [pc EXCEPT ![c] = "failed"]
            /\ outcome' = [outcome EXCEPT ![c] = Rejected(thrown[c])]
    /\ UNCHANGED <<cache, cacheDir, now, opts, hash, baseGamePath, statFailed,
                   modsLeft, todo, thrown,
                   cleanupWarned, wrote, overlapped, prior, intact, sweepVars>>

\* The failure of the cleanup taking the place of the original error.
RethrowCleanupError(error, cleanupError) == cleanupError

\* What bakeGame rejects with after cleanupBakedGame met `cleanupError`.
RethrowAfterCleanup(error, cleanupError) == error

\* l.259-264: fs.rm(bakedGameDir, { recursive: true, force: true }); its
\* failure is caught and logged; then bakeGame rethrows (l.101).
CleanupRm(c) ==
    /\ pc[c] = "rm"
    /\ \E rmOk \in BOOLEAN :
         IF rmOk
         THEN /\ cache' = RmRecursive(cache, BakedGameDir(hash[c]))
              /\ outcome' = [outcome EXCEPT ![c] = Rejected(thrown[c])]
              /\ UNCHANGED cleanupWarned
         ELSE /\ cleanupWarned' = [cleanupWarned EXCEPT ![c] = TRUE]
              /\ outcome' = [outcome EXCEPT ![c] =
                     Rejected(RethrowAfterCleanup(thrown[c], Err("CleanupFailure", "rm")))]
              /\ UNCHANGED cache
    /\ pc' = [pc EXCEPT ![c] = "failed"]
    /\ intact' = intact \ {hash[c]}
    /\ UNCHANGED <<cacheDir, now, opts, hash, baseGamePath, statFailed, modsLeft,
                   todo, thrown, wrote, overlapped, prior, sweepVars>>

\* ------------------------------------------ cleanupOldBakedGames (l.282)

\* Every name an entry of baked-games can have here, in readdir's order.
RECURSIVE NamesOf(_)
NamesOf(requests) ==
    IF requests = <<>> THEN <<>>
    ELSE <<BakedGameDir(KeyOf(Head(requests))), BakedGameArchive(KeyOf(Head(requests)))>>
         \o NamesOf(Tail(requests))

\* Entries of baked-games that are not baked games: a plain file whose name
\* starts with 'baked-' and a directory of another name.
StrayFile == <<"baked-", "notes.txt">>

StrayDir == <<"tmp">>

CacheNames == <<StrayFile, StrayDir>> \o NamesOf(RequestSeq)

\* fs.readdir(this.bakedGamesDir, { withFileTypes: true })
RECURSIVE Listing(_, _)
Listing(c, names) ==
    IF names = <<>> THEN <<>>
    ELSE (IF fileExists(c, Head(names))
          THEN <<[name |-> Head(names), kind |-> c[Head(names)].kind]>> ELSE <<>>)
         \o Listing(c, Tail(names))

\* The test of the name alone.
IsBakedName(entry) == Head(entry.name) = "baked-"

\* l.290: entry.isDirectory() && entry.name.startsWith("baked-")
IsBakedDir(entry) == entry.kind = "dir" /\ Head(entry.name) = "baked-"

RECURSIVE SweepTargets(_)
SweepTargets(entries) ==
    IF entries = <<>> THEN <<>>
    ELSE (IF IsBakedDir(Head(entries)) THEN <<Head(entries)>> ELSE <<>>)
         \o SweepTargets(Tail(entries))

\* The age test evicting at exactly maxAge.
IsOldOrEqual(t, mtime, maxAge) == t - mtime >= maxAge

\* l.294: now - stat.mtime.getTime() > maxAge
IsOld(t, mtime, maxAge) == t - mtime > maxAge

NoVerdict == [name |-> <<>>, age |-> 0, evict |-> FALSE]

\* l.300-302: the catch around the whole sweep: log.warn and return.
SweepWarn ==
    /\ spc' = "idle"
    /\ sWarned' = TRUE
    /\ sEntries' = <<>>

\* l.282: the call starts with `maxAge`.
CleanupOldBakedGames ==
    /\ spc = "idle"
    /\ \E maxAge \in 0..MaxAge : sMaxAge' = maxAge
    /\ spc' = "access"
    /\ sWarned' = FALSE
    /\ sVerdict' = NoVerdict
    /\ UNCHANGED <<cache, cacheDir, now, bakeVars, intact, sNow, sEntries>>

\* l.284: if (!(await this.fileExists(this.bakedGamesDir))) return
SweepAccess ==
    /\ spc = "access"
    /\ spc' = IF cacheDir THEN "readdir" ELSE "idle"
    /\ UNCHANGED <<cache, cacheDir, now, bakeVars, intact, sMaxAge, sNow, sEntries,
                   sVerdict, sWarned>>

\* l.286-287: entries = await fs.readdir(...); now = Date.now()
SweepReaddir ==
    /\ spc = "readdir"
    /\ \E readdirOk \in BOOLEAN :
         IF readdirOk
         THEN LET targets == SweepTargets(Listing(cache, CacheNames))
              IN  /\ sEntries' = targets
                  /\ sNow' = now
                  /\ spc' = IF targets = <<>> THEN "idle" ELSE "stat"
                  /\ UNCHANGED sWarned
         ELSE SweepWarn /\ UNCHANGED sNow
    /\ UNCHANGED <<cache, cacheDir, now, bakeVars, intact, sMaxAge, sVerdict>>

\* l.292-294: stat = await fs.stat(entryPath) and the age test.
SweepStat ==
    /\ spc = "stat"
    /\ \E statOk \in BOOLEAN :
         LET name == Head(sEntries).name
         IN  IF statOk /\ fileExists(cache, name)
             THEN LET old == IsOld(sNow, cache[name].mtime, sMaxAge)
                  IN  /\ sVerdict' = [name |-> name, age |-> sNow - cache[name].mtime,
                                      evict |-> old]
                      /\ sEntries' = IF old THEN sEntries ELSE Tail(sEntries)
                      /\ spc' = IF old THEN "rm"
                                ELSE IF Tail(sEntries) = <<>> THEN "idle" ELSE "stat"
                      /\ UNCHANGED sWarned
             ELSE SweepWarn /\ UNCHANGED sVerdict
    /\ UNCHANGED <<cache, cacheDir, now, bakeVars, intact, sMaxAge, sNow>>

\* l.295: await fs.rm(entryPath, { recursive: true, force: true })
SweepRm ==
    /\ spc = "rm"
    /\ \E rmOk \in BOOLEAN :
         LET name == Head(sEntries).name
         IN  IF rmOk
             THEN /\ cache' = RmRecursive(cache, name)
                  /\ intact' = {k \in intact :
                                   name \notin {BakedGameDir(k), BakedGameArchive(k)}}
                  /\ sEntries' = Tail(sEntries)
                  /\ spc' = IF Tail(sEntries) = <<>> THEN "idle" ELSE "stat"
                  /\ UNCHANGED sWarned
             ELSE SweepWarn /\ UNCHANGED <<cache, intact>>
    /\ UNCHANGED <<cacheDir, now, bakeVars, sMaxAge, sNow, sVerdict>>

\* Time passes.
Tick ==
    /\ now < MaxTime
    /\ now' = now + 1
    /\ UNCHANGED <<cache, cacheDir, bakeVars, intact, sweepVars>>

\* ------------------------------------------------------- specification

\* An entry baked-<key>.sdd left in baked-games by something other than
\* this service, which never creates one.
ForeignArchive(t) == [kind |-> "dir", mtime |-> t, files |-> EmptyFiles, dirs |-> {}]

EmptyCache == [n \in {} |-> NewDir(0)]

\* No call has been made yet.
InitCalls ==
    /\ now = 0
    /\ pc = [c \in Callers |-> "idle"]
    /\ opts = [c \in Callers |-> NoRequest]
    /\ hash = [c \in Callers |-> <<>>]
    /\ baseGamePath = [c \in Callers |-> GamePath(<<>>, <<>>)]
    /\ statFailed = [c \in Callers |-> {}]
    /\ modsLeft = [c \in Callers |-> <<>>]
    /\ todo = [c \in Callers |-> <<>>]
    /\ thrown = [c \in Callers |-> NoError]
    /\ outcome = [c \in Callers |-> Pending]
    /\ cleanupWarned = [c \in Callers |-> FALSE]
    /\ wrote = [c \in Callers |-> FALSE]
    /\ overlapped = [c \in Callers |-> {}]
    /\ prior = [c \in Callers |-> FALSE]
    /\ intact = {}
    /\ spc = "idle"
    /\ sMaxAge = 0
    /\ sNow = 0
    /\ sEntries = <<>>
    /\ sVerdict = NoVerdict
    /\ sWarned = FALSE

\* After the constructor (l.34-45): baked-games exists; it is empty or holds
\* an archive for the first request.
Init ==
    /\ cacheDir = TRUE
    /\ cache \in {EmptyCache,
                   (BakedGameArchive(KeyOf(RequestSeq[1])) :> ForeignArchive(0))}
    /\ InitCalls

\* What the user keeps beside the baked games.
Strays(t) ==
    (StrayFile :> [kind |-> "file", mtime |-> t, files |-> EmptyFiles, dirs |-> {}])
    @@ (StrayDir :> NewDir(t))

\* After the constructor, whose mkdirSync may have failed (l.41-44, logged):
\* baked-games is missing, or it exists and is empty or holds other entries
\* beside an archive for the first request.
InitSweep ==
    /\ cacheDir \in BOOLEAN
    /\ cache \in IF cacheDir
                 THEN {EmptyCache,
                       (BakedGameArchive(KeyOf(RequestSeq[1])) :> ForeignArchive(0))
                       @@ Strays(0)}
                 ELSE {EmptyCache}
    /\ InitCalls

\* The awaits of a call that has started: each of them returns.
Advance(c) ==
    \/ CheckCache(c)
    \/ FindBaseGame(c)
    \/ ExtractArchive(c)
    \/ CopyStep(c)
    \/ ApplyModDelta(c)
    \/ CreateBakedGameModInfo(c)
    \/ CleanupBakedGame(c)
    \/ CleanupRm(c)

\* The steps of one call of bakeGame.
BakeStep(c) == BakeGame(c) \/ Advance(c)

\* Spec: calls of bakeGame, two of them running concurrently.
Next == \E c \in Callers : BakeStep(c)

Spec == Init /\ [][Next]_vars

\* SpecLive: Spec where every filesystem call a started bakeGame awaits
\* eventually returns, successfully or with an error.
SpecLive == Init /\ [][Next]_vars /\ \A c \in Callers : WF_vars(Advance(c))

\* SpecSweep: cleanupOldBakedGames running beside one call of bakeGame,
\* while time passes.
SweepCallers == {"c1"}

NextSweep ==
    \/ \E c \in SweepCallers : BakeStep(c)
    \/ CleanupOldBakedGames
    \/ SweepAccess
    \/ SweepReaddir
    \/ SweepStat
    \/ SweepRm
    \/ Tick

SpecSweep == InitSweep /\ [][NextSweep]_vars

\* SpecHash: generateCombinationHash applied by two calls to inputs drawn
\* from HashInputs.
HashMods == {ModPatch, ModPatchMoved, ModPatchV2, ModPatchRenamed}

ModLists == UNION {[1..n -> HashMods] : n \in 0..MaxMods}

HashInputs ==
    {Request(b, m, e) : b \in {Demo, Quoted}, m \in ModLists, e \in {"e1", "e2"}}

HashCall(c) == \E options \in HashInputs : BakeGameWith(c, options)

InitHash == Init /\ cache = EmptyCache

NextHash == \E c \in Callers : HashCall(c)

SpecHash == InitHash /\ [][NextHash]_vars

\* -------------------------------------------------------------- claims

\* The call is past the cache check, which found nothing.
Missed(c) == pc[c] \in {"find", "extract", "copy", "overlay", "mods", "cleanup", "rm"}

\* C1 (as claimed): a call that starts after its combination was baked
\* successfully, with no failure or eviction on that key since, takes the
\* cache-hit branch: it writes nothing under the working path and returns
\* the same { gameType, archivePath, hash }.
CacheIdempotence ==
    \A c \in Callers :
        (prior[c] /\ hash[c] \in intact /\ pc[c] \notin {"idle", "check"})
        => /\ pc[c] = "done"
           /\ ~wrote[c]
           /\ outcome[c] = BakedGameResult(hash[c])

RECURSIVE PathsOf(_, _)
PathsOf(entries, prefix) ==
    IF entries = <<>> THEN {}
    ELSE LET e == Head(entries)
         IN  (IF e.kind = "dir" THEN PathsOf(e.entries, prefix \o <<e.name>>)
              ELSE {prefix \o <<e.name>>})
             \cup PathsOf(Tail(entries), prefix)

RECURSIVE ContentAt(_, _)
ContentAt(entries, path) ==
    LET e == entries[CHOOSE i \in 1..Len(entries) : entries[i].name = Head(path)]
    IN  IF Len(path) = 1 THEN e.content ELSE ContentAt(e.entries, Tail(path))

Largest(S) == CHOOSE i \in S : \A j \in S : j <= i

\* What last-overlay-wins puts at path p for base tree `base` and `mods`.
Precedence(base, mods, p) ==
    LET having == {i \in 1..Len(mods) : p \in PathsOf(ModReaddir(mods[i].installPath), <<>>)}
    IN  IF having = {} THEN ContentAt(base, p)
        ELSE ContentAt(ModReaddir(mods[Largest(having)].installPath), p)

AllPaths(base, mods) ==
    PathsOf(base, <<>>)
    \cup UNION {PathsOf(ModReaddir(mods[i].installPath), <<>>) : i \in 1..Len(mods)}

\* The baked directory of c holds, at every path but modinfo.lua, what
\* last-overlay-wins puts there.
LastOverlayWins(c, dirs) ==
    LET base == GameEntry(baseGamePath[c]).entries
        dir == BakedGameDir(hash[c])
    IN  /\ fileExists(dirs, dir)
        /\ \A p \in AllPaths(base, opts[c].mods) \ {modInfoPath} :
              /\ p \in DOMAIN dirs[dir].files
              /\ dirs[dir].files[p] = Precedence(base, opts[c].mods, p)

\* The call of c returns from a fresh build in this step.
ReturnsFresh(c) == pc[c] = "mods" /\ pc'[c] = "done"

\* C3 (as claimed): when a fresh bakeGame returns, every path but the root
\* modinfo.lua holds the content of the last overlay that has it, or the
\* base's.
OverlayPrecedence ==
    [][\A c \in Callers : ReturnsFresh(c) => LastOverlayWins(c, cache')]_vars

\* C4 (as claimed): once a call has failed, neither its working directory
\* nor the path the lookup tests exists.
FailureLeavesNoResidue ==
    \A c \in Callers :
        pc[c] = "failed"
        => /\ ~fileExists(cache, BakedGameDir(hash[c]))
           /\ ~fileExists(cache, BakedGameArchive(hash[c]))

\* C4 (amended): at the moment a failed call rejects, its working directory
\* does not exist unless the removal of its own cleanup failed (and was
\* logged); and after a call has failed the lookup for its key misses.
ResidueOnlyAfterFailedCleanup ==
    [][\A c \in Callers :
          /\ (pc[c] # "failed" /\ pc'[c] = "failed")
             => (cleanupWarned'[c] \/ ~fileExists(cache', BakedGameDir(hash[c])))
          /\ pc'[c] = "failed" => ~fileExists(cache', BakedGameArchive(hash'[c]))]_vars

\* C4 witness: a call failed partway through an overlay, after writing, and
\* its cleanup removed the working directory.
ResidueWitness ==
    \E c \in Callers :
        /\ pc[c] = "failed" /\ wrote[c] /\ ~cleanupWarned[c]
        /\ thrown[c] = Err("IOFailure", "overlay")
        /\ ~fileExists(cache, BakedGameDir(hash[c]))

\* C5 (as claimed): of two calls on the same key that ran concurrently, at
\* most one wrote into the directory of that key.
NoDoublePublish ==
    \A c \in Callers, d \in Callers :
        (c # d /\ hash[c] = hash[d] /\ d \in overlapped[c])
        => ~(wrote[c] /\ wrote[d])

\* Both calls have computed their hash.
Hashed(c, d) == c # d /\ pc[c] # "idle" /\ pc[d] # "idle"

SameBase(c, d) ==
    /\ opts[c].baseGameType = opts[d].baseGameType
    /\ opts[c].engineVersion = opts[d].engineVersion

\* The (name, version) identity of an overlay.
NameVersion(mod) == <<mod.shortname, mod.version>>

SameNameVersions(c, d) ==
    /\ Len(opts[c].mods) = Len(opts[d].mods)
    /\ \A i \in 1..Len(opts[c].mods) :
          NameVersion(opts[c].mods[i]) = NameVersion(opts[d].mods[i])

SameInstallPaths(c, d) ==
    /\ Len(opts[c].mods) = Len(opts[d].mods)
    /\ \A i \in 1..Len(opts[c].mods) :
          opts[c].mods[i].installPath = opts[d].mods[i].installPath

Reordered(c, d) ==
    LET m == opts[c].mods
        n == opts[d].mods
    IN  /\ Len(m) = Len(n)
        /\ \E i \in 1..Len(m) : NameVersion(m[i]) # NameVersion(n[i])
        /\ \E f \in Permutations(1..Len(m)) :
              \A i \in 1..Len(m) : NameVersion(n[i]) = NameVersion(m[f[i]])

VersionDiffers(c, d) ==
    /\ Len(opts[c].mods) = Len(opts[d].mods)
    /\ \E i \in 1..Len(opts[c].mods) : opts[c].mods[i].version # opts[d].mods[i].version

\* C7: two calls that differ in base type, in engine version, in the number
\* of overlays, in the order of the overlays or in the version of an overlay
\* get different combination hashes, hence different cache directories.
FingerprintSensitivity ==
    \A c \in Callers, d \in Callers :
        (/\ Hashed(c, d)
         /\ \/ opts[c].baseGameType # opts[d].baseGameType
            \/ opts[c].engineVersion # opts[d].engineVersion
            \/ Len(opts[c].mods) # Len(opts[d].mods)
            \/ Reordered(c, d)
            \/ VersionDiffers(c, d))
        => /\ hash[c] # hash[d]
           /\ BakedGameDir(hash[c]) # BakedGameDir(hash[d])
           /\ BakedGameArchive(hash[c]) # BakedGameArchive(hash[d])

\* C7 witness: [A, B] and [B, A] hashed by two calls.
FingerprintOrderWitness ==
    \E c \in Callers, d \in Callers :
        /\ Hashed(c, d) /\ SameBase(c, d)
        /\ opts[c].mods = <<ModPatch, ModPatchV2>>
        /\ opts[d].mods = <<ModPatchV2, ModPatch>>
        /\ hash[c] # hash[d]

\* C8: once a step has thrown E the call never resolves; it goes through
\* the cleanup and rejects with exactly E, also when the cleanup itself
\* failed and logged it; a call that resolved has thrown nothing.
ErrorPropagation ==
    \A c \in Callers :
        /\ thrown[c] # NoError
           => /\ pc[c] \in {"cleanup", "rm", "failed"}
              /\ outcome[c].state # "resolved"
        /\ pc[c] \in {"cleanup", "rm"} => outcome[c] = Pending
        /\ pc[c] = "failed"
           => /\ thrown[c] # NoError
              /\ outcome[c] = Rejected(thrown[c])
        /\ pc[c] = "done" => thrown[c] = NoError /\ outcome[c].state = "resolved"

\* C8 witness: a call rejected with its I/O error after the removal of its
\* cleanup had failed.
ErrorPropagationWitness ==
    \E c \in Callers :
        /\ pc[c] = "failed" /\ cleanupWarned[c]
        /\ outcome[c].state = "rejected"
        /\ outcome[c].error = Err("IOFailure", "overlay")

\* C9 (as claimed): the steps a call takes after findBaseGame threw NotFound
\* leave the baked-games directory as it was.
NotFoundLeavesCacheUntouched ==
    [][\A c \in Callers :
          (thrown[c].kind = "NotFound" /\ pc'[c] # pc[c]) => cache' = cache]_vars

\* The sweep takes a step that resolves (it logs no failure).
SweepResolves == sWarned' = sWarned /\ (spc' # spc \/ sEntries' # sEntries)

\* C10: the sweep goes on to remove the entry it has statted if and only if
\* now - mtime is strictly greater than maxAge, and its removal, when it
\* resolves, removes that entry and nothing else; no other step of the sweep
\* changes the directory, so a sweep of an empty directory changes nothing.
EvictionBoundary ==
    [][/\ (spc = "stat" /\ SweepResolves)
          => /\ spc' = "rm" <=> sNow - cache[Head(sEntries).name].mtime > sMaxAge
             /\ cache' = cache
       /\ (spc = "rm" /\ SweepResolves)
          => /\ sVerdict.age > sMaxAge
             /\ DOMAIN cache' = DOMAIN cache \ {Head(sEntries).name}
             /\ \A n \in DOMAIN cache' : cache'[n] = cache[n]
       /\ (spc \in {"idle", "readdir"} /\ spc' # spc) => cache' = cache
       /\ (spc = "readdir" /\ DOMAIN cache = {}) => spc' # "stat"]_vars

\* C10 witness: the sweep has kept an entry whose age was exactly maxAge > 0
\* and is about to remove one older by 1.
EvictionBoundaryWitness ==
    /\ spc = "rm"
    /\ sMaxAge > 0
    /\ sVerdict.age = sMaxAge + 1
    /\ \E n \in DOMAIN cache : n # sVerdict.name /\ sNow - cache[n].mtime = sMaxAge

\* The sweep logs its failure in this step.
SweepFails == sWarned' /\ ~sWarned

\* C11 (as claimed): when the stat or the removal of an entry fails while
\* other entries are still to be visited, the sweep goes on to the next
\* entry instead of ending.
SweepBestEffort ==
    [][(spc \in {"stat", "rm"} /\ SweepFails /\ Tail(sEntries) # <<>>)
          => (spc' = "stat" /\ sEntries' = Tail(sEntries))]_vars

\* The call is building: it has written into its directory and has neither
\* returned nor thrown.
Building(c) == pc[c] \in {"copy", "overlay", "mods"} /\ wrote[c]

\* C12 (as claimed): a removal of the sweep never takes the directory a
\* call is building into.
EvictionSparesBuilds ==
    [][(spc = "rm" /\ sEntries' # sEntries)
          => \A c \in Callers :
                Building(c) => Head(sEntries).name # BakedGameDir(hash[c])]_vars

\* The call of c takes this step.
Steps(c) == pc'[c] # pc[c] \/ todo'[c] # todo[c]

\* The directory of c in `dirs` is the artifact of its options: the base and
\* the overlays by last-overlay-wins, the synthesized modinfo.lua, and
\* nothing else.
Baked(c, dirs) ==
    LET base == GameEntry(baseGamePath[c]).entries
        dir == BakedGameDir(hash[c])
    IN  /\ LastOverlayWins(c, dirs)
        /\ DOMAIN dirs[dir].files = AllPaths(base, opts[c].mods) \cup {<<"modinfo.lua">>}
        /\ dirs[dir].files[<<"modinfo.lua">>]
              = modInfoContent(opts[c].baseGameType, opts[c].mods)

\* No other call has, or has had, the key of c.
NoRival(c) == \A d \in Callers \ {c} : hash'[d] # hash'[c]

\* C13: a step of a call (its failure cleanup included) creates, writes and
\* removes nothing in baked-games but the directory of its own key; and
\* whatever calls on other keys do, a call with no rival on its key that
\* has returned from a fresh build has the artifact of its options.
KeyIndependence ==
    [][\A c \in Callers :
          /\ Steps(c)
             => \A n \in (DOMAIN cache \cup DOMAIN cache') \ {BakedGameDir(hash'[c])} :
                   n \in DOMAIN cache /\ n \in DOMAIN cache' /\ cache'[n] = cache[n]
          /\ (pc'[c] = "done" /\ wrote'[c] /\ NoRival(c)) => Baked(c, cache')]_vars

\* C13 witness: of two calls on different keys that ran concurrently and
\* both wrote, one failed and removed its directory, the other returned its
\* artifact.
KeyIndependenceWitness ==
    \E c \in Callers, d \in Callers :
        /\ c # d /\ hash[c] # hash[d] /\ d \in overlapped[c]
        /\ pc[d] = "failed" /\ wrote[d] /\ ~cleanupWarned[d]
        /\ pc[c] = "done" /\ wrote[c]
        /\ Baked(c, cache)

\* The path the lookup of key h tests, and the descriptor of a hit.
LookupPath(h) == <<"baked-">> \o h \o <<".sdd">>

HitDescriptor(h) ==
    [state |-> "resolved", gameType |-> <<"baked-">> \o h,
     archivePath |-> LookupPath(h), hash |-> h, error |-> NoError]

\* C14: when the lookup of a call finds the path of its key, the call
\* returns { gameType: baked-<key>, archivePath, hash: key } in that step,
\* without resolving the base, copying, overlaying, writing the manifest or
\* cleaning up, and baked-games is left as it was; a call that returned so
\* has written nothing.
CacheHitReadOnly ==
    [][\A c \in Callers :
          /\ (pc[c] = "check" /\ pc'[c] # "check" /\ fileExists(cache, LookupPath(hash[c])))
             => /\ pc'[c] = "done"
                /\ outcome'[c] = HitDescriptor(hash[c])
                /\ cache' = cache /\ cacheDir' = cacheDir
                /\ baseGamePath'[c] = baseGamePath[c]
                /\ todo'[c] = <<>> /\ modsLeft'[c] = opts[c].mods
                /\ thrown'[c] = NoError /\ ~wrote'[c] /\ ~cleanupWarned'[c]
          /\ (pc[c] = "check" /\ pc'[c] = "done")
             => fileExists(cache, LookupPath(hash[c]))]_vars

\* C14 witness: a call returned from the cache-hit branch while another call
\* was building.
CacheHitWitness ==
    \E c \in Callers, d \in Callers :
        /\ c # d
        /\ pc[c] = "done" /\ ~wrote[c]
        /\ outcome[c] = HitDescriptor(hash[c])
        /\ fileExists(cache, LookupPath(hash[c]))
        /\ d \in overlapped[c] /\ pc[d] = "overlay"

Terminal(c) == pc[c] \in {"done", "failed"}

\* C15: every started call eventually is done or failed; a done call has
\* resolved and a failed one has rejected, a call in flight has done
\* neither; and a call that is done or failed stays so, with the outcome it
\* had.
BakeEndsDoneOrFailed ==
    /\ \A c \in Callers : InFlight(c) ~> Terminal(c)
    /\ [](\A c \in Callers :
             /\ pc[c] = "done" => outcome[c].state = "resolved"
             /\ pc[c] = "failed" => outcome[c].state = "rejected"
             /\ ~Terminal(c) => outcome[c] = Pending)
    /\ [][\A c \in Callers :
             Terminal(c) => (pc'[c] = pc[c] /\ outcome'[c] = outcome[c])]_vars

\* C15 witness: two calls on one key ran concurrently and both wrote; one
\* is done and the other failed.
BakeEndsWitness ==
    \E c \in Callers, d \in Callers :
        /\ c # d /\ hash[c] = hash[d] /\ d \in overlapped[c]
        /\ pc[c] = "done" /\ wrote[c]
        /\ pc[d] = "failed" /\ wrote[d]

\* The order of the awaits of bakeGame.
StepsInOrder ==
    {<<"idle", "check">>, <<"check", "done">>, <<"check", "find">>,
     <<"find", "extract">>, <<"extract", "copy">>, <<"copy", "mods">>,
     <<"mods", "overlay">>, <<"overlay", "mods">>, <<"mods", "done">>,
     <<"find", "cleanup">>, <<"extract", "cleanup">>, <<"copy", "cleanup">>,
     <<"mods", "cleanup">>, <<"overlay", "cleanup">>,
     <<"cleanup", "rm">>, <<"cleanup", "failed">>, <<"rm", "failed">>}

\* The last `left` of the overlays `mods`.
LastMods(mods, left) == SubSeq(mods, Len(mods) - left + 1, Len(mods))

\* C16: a call goes through its steps in the order resolve, copy base,
\* overlay 1, ..., overlay N, manifest, return, or leaves that order for the
\* cleanup: no overlay starts before the base copy has finished, overlay i+1
\* starts only when overlay i has finished and is the next of the caller's
\* list, the manifest is written only after the last overlay has finished,
\* and it is the last write of the call: at the return modinfo.lua is the
\* synthesized manifest, whatever modinfo.lua the base or an overlay has.
StepOrdering ==
    [][\A c \in Callers :
          /\ pc'[c] # pc[c] => <<pc[c], pc'[c]>> \in StepsInOrder
          /\ /\ Len(modsLeft'[c]) <= Len(opts'[c].mods)
             /\ modsLeft'[c] = LastMods(opts'[c].mods, Len(modsLeft'[c]))
          /\ pc[c] \in {"find", "extract", "copy"} => modsLeft[c] = opts[c].mods
          /\ (pc[c] # "idle" /\ modsLeft'[c] # modsLeft[c])
             => /\ pc[c] = "mods" /\ todo[c] = <<>>
                /\ modsLeft'[c] = Tail(modsLeft[c])
                /\ todo'[c] = OverlayEntries(ModReaddir(Head(modsLeft[c]).installPath), <<>>)
          /\ (pc[c] = "mods" /\ pc'[c] = "done")
             => /\ modsLeft[c] = <<>> /\ todo[c] = <<>>
                /\ cache'[BakedGameDir(hash[c])].files[<<"modinfo.lua">>]
                      = modInfoContent(opts[c].baseGameType, opts[c].mods)
          /\ pc[c] = "done" => (pc'[c] = "done" /\ wrote'[c] = wrote[c])]_vars

\* C16 witness: a call returned from a fresh build of a base with its own
\* modinfo.lua and two overlays, the first of which has its own modinfo.lua;
\* modinfo.lua is the synthesized manifest.
StepOrderingWitness ==
    \E c \in Callers :
        /\ pc[c] = "done" /\ wrote[c]
        /\ opts[c].mods = <<ModOther, ModPatch>>
        /\ <<"modinfo.lua">> \in PathsOf(ModReaddir(ModOther.installPath), <<>>)
        /\ <<"modinfo.lua">> \in PathsOf(GameEntry(baseGamePath[c]).entries, <<>>)
        /\ fileExists(cache, BakedGameDir(hash[c]))
        /\ cache[BakedGameDir(hash[c])].files[<<"modinfo.lua">>]
              = modInfoContent(opts[c].baseGameType, opts[c].mods)

\* The search roots of a call in their fixed order, and the rank of one.
SearchRoots(c) ==
    <<<<"data", "games">>,
      <<"assets", "engine", opts[c].engineVersion, "games">>,
      <<"assets", "games">>>>

RootRank(c, root) == CHOOSE i \in 1..3 : SearchRoots(c)[i] = root

\* The entries of the search roots of c that exist.
Searched(c) ==
    {p \in AllGamePaths : \E i \in 1..3 : SearchRoots(c)[i] = p.root}

Position(p) ==
    CHOOSE i \in 1..Len(GamesReaddir(p.root)) : GamesReaddir(p.root)[i].name = p.name

\* p is met before q by the search of c.
Before(c, p, q) ==
    \/ RootRank(c, p.root) < RootRank(c, q.root)
    \/ p.root = q.root /\ Position(p) < Position(q)

\* p is a candidate of the call of c and passed isValidGameArchive (its
\* stat did not reject and it is well-formed).
Passes(c, p) ==
    /\ IsCandidate(p.name, opts[c].baseGameType)
    /\ isValidGameArchive(p, statFailed[c])

\* findBaseGame has returned or thrown, otherwise than by an I/O error.
Resolved(c) ==
    /\ pc[c] \notin {"idle", "check", "find"}
    /\ ~(pc[c] = "done" /\ ~wrote[c])
    /\ thrown[c] # Err("IOFailure", "findBaseGame")

\* C17: what findBaseGame returned is an entry of one of the three search
\* roots that passed isValidGameArchive, and every other entry that passes
\* is met later in the fixed order (a later root, or later in the same
\* root); it throws 'Base game not found' exactly when no entry of an
\* existing root passes.
ResolverPrecedence ==
    \A c \in Callers :
        Resolved(c)
        => /\ thrown[c].kind # "NotFound"
              => /\ baseGamePath[c] \in Searched(c)
                 /\ Passes(c, baseGamePath[c])
                 /\ \A q \in Searched(c) \ {baseGamePath[c]} :
                       Passes(c, q) => Before(c, baseGamePath[c], q)
           /\ thrown[c].kind = "NotFound"
              <=> \A q \in Searched(c) : ~Passes(c, q)

\* C17 witness: two roots hold a valid candidate and the one of the earlier
\* root was returned; for another call the stat of that one rejected and the
\* one of the later root was returned.
ResolverPrecedenceWitness ==
    \E c \in Callers, d \in Callers :
        /\ Resolved(c) /\ Resolved(d)
        /\ baseGamePath[c] = GamePath(DataGames, DemoSdd)
        /\ Passes(c, GamePath(AssetGames, DemoSd7))
        /\ baseGamePath[d] = GamePath(AssetGames, DemoSd7)
        /\ statFailed[d] = {GamePath(DataGames, DemoSdd)}

\* C18 (as claimed): when a call returns from a fresh build, the
\* archivePath of its result exists and is the directory the build wrote
\* into.
ReturnedLocationIsArtifact ==
    [][\A c \in Callers :
          ReturnsFresh(c)
          => /\ fileExists(cache', outcome'[c].archivePath)
             /\ outcome'[c].archivePath = BakedGameDir(hash[c])]_vars

\* C19 (as claimed): the cleanup of a failing call leaves the artifact of a
\* call on the same key that has returned successfully as it is.
CleanupSparesValidEntry ==
    [][\A c \in Callers, d \in Callers :
          (/\ c # d /\ hash[c] = hash[d]
           /\ pc[c] = "done" /\ wrote[c] /\ fileExists(cache, BakedGameDir(hash[c]))
           /\ pc[d] = "rm" /\ pc'[d] = "failed")
          => /\ fileExists(cache', BakedGameDir(hash[c]))
             /\ cache'[BakedGameDir(hash[c])] = cache[BakedGameDir(hash[c])]]_vars

\* The sweep takes this step.
SweepSteps == spc' # spc \/ sEntries' # sEntries

\* C20: a step of the sweep changes nothing but baked-games, where it only
\* removes, and only directories whose name starts with 'baked-': plain
\* files and directories of other names stay as they are whatever their
\* age; and when baked-games does not exist the sweep returns at once,
\* having created and logged nothing.
SweepFrame ==
    [][SweepSteps
          => /\ DOMAIN cache' \subseteq DOMAIN cache
             /\ \A n \in DOMAIN cache' : cache'[n] = cache[n]
             /\ \A n \in DOMAIN cache \ DOMAIN cache' :
                   cache[n].kind = "dir" /\ Head(n) = "baked-"
             /\ cacheDir' = cacheDir
             /\ bakeVars' = bakeVars
             /\ (spc = "access" /\ ~cacheDir)
                => (spc' = "idle" /\ cache' = cache /\ ~sWarned')]_vars

\* C20 witness: a sweep has ended after removing a baked directory, leaving
\* a plain file named baked-... and a directory of another name that are
\* both older than maxAge.
SweepFrameWitness ==
    /\ spc = "idle" /\ ~sWarned
    /\ sVerdict.evict /\ ~fileExists(cache, sVerdict.name)
    /\ \A n \in {StrayFile, StrayDir} :
          fileExists(cache, n) /\ sNow - cache[n].mtime > sMaxAge
    /\ cache[StrayFile].kind = "file"

====
